---- MODULE Spec2Model ----
(***************************************************************************)
(* Model of the three firmware images of fx2-sim:                          *)
(*   firmware/fx2usb/main.c  - control-dispatch loop with scratch markers  *)
(*   test-libfx2/main.c      - control-dispatch loop with IFCONFIG marker  *)
(*   test/clkspd.c           - clock-divider cycling firmware              *)
(* The images are never linked together; `image` selects the one running.  *)
(***************************************************************************)
EXTENDS Integers, Naturals, Sequences, FiniteSets, TLC

\* ---------------------------------------------------------------- bounds
\* number of most recent bus events kept in the observation log
MaxLog == 5
\* uninitialised xdata cells start with any value in 0..MaxScratchVal
MaxScratchVal == 1
\* the count of handler calls in excess of raised requests stops at this
MaxDeficit == 1

\* ------------------------------------------------------- integer helpers
RECURSIVE Pow2(_)
Pow2(n) == IF n = 0 THEN 1 ELSE 2 * Pow2(n - 1)

RECURSIVE BitAndN(_, _, _)
BitAndN(a, b, n) ==
  IF n = 0 THEN 0
  ELSE (a % 2) * (b % 2) + 2 * BitAndN(a \div 2, b \div 2, n - 1)

\* C `a & b` on values that fit 16 bits (int on the 8051 target)
BitAnd(a, b) == BitAndN(a, b, 16)

\* C `a | b` for operands without common bits
BitOr(a, b) == a + b - BitAnd(a, b)

\* C `a >> n` on a non-negative value
ShiftR(a, n) == a \div Pow2(n)

\* C `a << n` before truncation
ShiftL(a, n) == a * Pow2(n)

\* store into a uint8_t
U8(a) == a % 256

\* ------------------------------------------------ clkspd.c register masks
CLKSPD_OFFSET == 3
CLKSPD0 == ShiftL(1, CLKSPD_OFFSET)
CLKSPD1 == ShiftL(1, CLKSPD_OFFSET + 1)
CLKSPD_MASK == BitOr(CLKSPD0, CLKSPD1)

\* the 2-bit clock-speed field of a CPUCS value
ClkField(v) == ShiftR(BitAnd(v, CLKSPD_MASK), CLKSPD_OFFSET)

\* the bits of a CPUCS value outside the clock-speed field
ClkOther(v) == BitAnd(v, 255 - CLKSPD_MASK)

\* ------------------------------------------------- USB interrupt register
\* setup-data-available bit of USBIRQ
SUDAV == 1
\* another request bit of USBIRQ that the hardware may raise (start of frame)
SOF == 2

\* variant: the busy-wait tests the wrong request bit
SudavClear_WrongMask(irq) == BitAnd(irq, SOF) = 0

\* the test of the busy-wait: (USBIRQ & _SUDAV) == 0
SudavClear(irq) == BitAnd(irq, SUDAV) = 0

\* the setup-available request is pending in a value of USBIRQ
HasSudav(irq) == irq % 2 = 1

\* ----------------------------------------------------- descriptor model
UsbImages == {"fx2usb", "libfx2"}

\* descriptor type code of an interface descriptor in a configuration's list
USB_DESC_INTERFACE == 4

\* variant: the size in bytes of an array of 2-byte pointers, not its length
ARRAYSIZE_Bytes(a) == 2 * Len(a)

ARRAYSIZE(a) == Len(a)

\* variant: the device announces a configuration that does not exist
usb_device_fx2usb_TwoConfigs ==
  [ bLength            |-> 18,
    bDescriptorType    |-> 1,
    bcdUSB             |-> 512,
    bDeviceClass       |-> 0,
    bDeviceSubClass    |-> 0,
    bDeviceProtocol    |-> 0,
    bMaxPacketSize0    |-> 64,
    idVendor           |-> 1204,
    idProduct          |-> 34323,
    bcdDevice          |-> 0,
    iManufacturer      |-> 1,
    iProduct           |-> 2,
    iSerialNumber      |-> 0,
    bNumConfigurations |-> 2 ]

\* variant: vendor and product identifiers exchanged
usb_device_fx2usb_SwappedIds ==
  [ bLength            |-> 18,
    bDescriptorType    |-> 1,
    bcdUSB             |-> 512,
    bDeviceClass       |-> 0,
    bDeviceSubClass    |-> 0,
    bDeviceProtocol    |-> 0,
    bMaxPacketSize0    |-> 64,
    idVendor           |-> 34323,
    idProduct          |-> 1204,
    bcdDevice          |-> 0,
    iManufacturer      |-> 1,
    iProduct           |-> 2,
    iSerialNumber      |-> 0,
    bNumConfigurations |-> 1 ]

usb_device_fx2usb ==
  [ bLength            |-> 18,
    bDescriptorType    |-> 1,
    bcdUSB             |-> 512,      \* 0x0200
    bDeviceClass       |-> 0,
    bDeviceSubClass    |-> 0,
    bDeviceProtocol    |-> 0,
    bMaxPacketSize0    |-> 64,
    idVendor           |-> 1204,     \* 0x04b4
    idProduct          |-> 34323,    \* 0x8613
    bcdDevice          |-> 0,
    iManufacturer      |-> 1,
    iProduct           |-> 2,
    iSerialNumber      |-> 0,
    bNumConfigurations |-> 1 ]

\* desc: the configuration header; items: the descriptor type of each entry
\* of the interface/endpoint list, 0 for the terminating null entry
usb_config_fx2usb ==
  [ desc  |-> [ bLength             |-> 9,
                bDescriptorType     |-> 2,
                bNumInterfaces      |-> 0,
                bConfigurationValue |-> 1,
                iConfiguration      |-> 0,
                bmAttributes        |-> 128,
                bMaxPower           |-> 50 ],
    items |-> << 0 >> ]

usb_configs_fx2usb == << usb_config_fx2usb >>

\* variant: the product string is missing from the table
usb_strings_fx2usb_Short == << "Antmicro" >>

usb_strings_fx2usb == << "Antmicro", "FX2 simulation example firmware" >>

usb_descriptor_set_fx2usb ==
  [ device       |-> usb_device_fx2usb,
    config_count |-> ARRAYSIZE(usb_configs_fx2usb),
    configs      |-> usb_configs_fx2usb,
    string_count |-> ARRAYSIZE(usb_strings_fx2usb),
    strings      |-> usb_strings_fx2usb ]

usb_device_libfx2 ==
  [ bLength            |-> 18,
    bDescriptorType    |-> 1,
    bcdUSB             |-> 512,
    bDeviceClass       |-> 0,
    bDeviceSubClass    |-> 0,
    bDeviceProtocol    |-> 0,
    bMaxPacketSize0    |-> 64,
    idVendor           |-> 1204,
    idProduct          |-> 34323,
    bcdDevice          |-> 0,
    iManufacturer      |-> 1,
    iProduct           |-> 2,
    iSerialNumber      |-> 0,
    bNumConfigurations |-> 1 ]

usb_config_libfx2 ==
  [ desc  |-> [ bLength             |-> 9,
                bDescriptorType     |-> 2,
                bNumInterfaces      |-> 2,
                bConfigurationValue |-> 1,
                iConfiguration      |-> 0,
                bmAttributes        |-> 128,
                bMaxPower           |-> 50 ],
    items |-> << 0 >> ]

usb_configs_libfx2 == << usb_config_libfx2 >>

usb_strings_libfx2 ==
  << "whitequark@whitequark.org", "FX2 series serial interface example" >>

usb_descriptor_set_libfx2 ==
  [ device       |-> usb_device_libfx2,
    config_count |-> ARRAYSIZE(usb_configs_libfx2),
    configs      |-> usb_configs_libfx2,
    string_count |-> ARRAYSIZE(usb_strings_libfx2),
    strings      |-> usb_strings_libfx2 ]

\* the descriptor set linked into an image
DescriptorSetOf(img) ==
  IF img = "fx2usb" THEN usb_descriptor_set_fx2usb
  ELSE usb_descriptor_set_libfx2

\* ------------------------------------------------------------------ state
VARIABLES
  image,               \* which firmware image runs
  pc,                  \* position of the CPU in main()
  USBIRQ,              \* USB interrupt-request register
  scratch,             \* scratch[0..2], xdata at 0xe000
  IFCONFIG,            \* interface configuration register, 0xe601
  usb_descriptor_set,  \* the descriptor set handed to the engine
  CPUCS,               \* clock-control register, 0xe600
  i,                   \* delay counter of clkspd.c
  cpuspd,              \* local copy of the clock-speed field
  events,              \* the last MaxLog register accesses and calls
  SETUPDAT,            \* the SETUP request waiting in the hardware
  EP0CS,               \* how endpoint 0 answered the last request served
  EP0BUF,              \* the bytes last put in the endpoint 0 buffer
  engine_failed,       \* the engine has returned without clearing SUDAV
  pending              \* requests raised minus handler calls made

vars == << image, pc, USBIRQ, scratch, IFCONFIG, usb_descriptor_set,
           CPUCS, i, cpuspd, events,
           SETUPDAT, EP0CS, EP0BUF, engine_failed, pending >>

usbVars == << USBIRQ, scratch, IFCONFIG, usb_descriptor_set >>
clkVars == << CPUCS, i, cpuspd >>
epVars == << SETUPDAT, EP0CS, EP0BUF >>
ghostVars == << engine_failed, pending >>

ScratchVals == 0 .. MaxScratchVal

\* an entry of the observation log
Ev(op, val) == [ op |-> op, val |-> val ]

\* append to the log, keeping the MaxLog most recent entries
Log(ev) ==
  IF Len(events) < MaxLog THEN Append(events, ev)
  ELSE Append(Tail(events), ev)

InitUsb ==
  /\ image \in UsbImages
  /\ pc = "wait"
  /\ USBIRQ = 0
  \* an image's start state varies only in the cells that image accesses
  /\ scratch \in IF image = "fx2usb" THEN [ 0 .. 2 -> ScratchVals ]
                 ELSE { [ k \in 0 .. 2 |-> 0 ] }
  /\ IFCONFIG \in IF image = "libfx2" THEN ScratchVals ELSE { 0 }
  /\ usb_descriptor_set = DescriptorSetOf(image)
  /\ CPUCS = 0
  /\ i = 0
  /\ cpuspd = 0
  /\ events = << >>
  /\ SETUPDAT = "NONE"
  /\ EP0CS = "idle"
  /\ EP0BUF = << >>
  /\ engine_failed = FALSE
  /\ pending = 0

InitClk ==
  /\ image = "clkspd"
  /\ pc = "clk_reset"
  /\ USBIRQ = 0
  /\ scratch = [ k \in 0 .. 2 |-> 0 ]
  /\ IFCONFIG = 0
  /\ usb_descriptor_set = << >>
  /\ CPUCS \in 0 .. 255
  /\ i = 0
  /\ cpuspd = 0
  /\ events = << >>
  /\ SETUPDAT = "NONE"
  /\ EP0CS = "idle"
  /\ EP0BUF = << >>
  /\ engine_failed = FALSE
  /\ pending = 0

Init == InitUsb \/ InitClk

\* the SETUP requests a host sends: one the engine serves by itself and
\* one it does not recognise
StandardRequests == { "GET_DESCRIPTOR_DEVICE" }
Requests == StandardRequests \cup { "VENDOR" }

\* ------------------------------------------------ hardware (USB images)
\* a SETUP packet arrives: the hardware raises the setup-available request
HwSetupArrives ==
  /\ image \in UsbImages
  /\ ~HasSudav(USBIRQ)
  /\ USBIRQ' = BitOr(USBIRQ, SUDAV)
  /\ \E req \in Requests : SETUPDAT' = req
  /\ pending' = pending + 1
  /\ UNCHANGED << image, pc, scratch, IFCONFIG, usb_descriptor_set,
                  clkVars, events, EP0CS, EP0BUF, engine_failed >>

\* the hardware raises another request bit of the same register
HwOtherIrq ==
  /\ image \in UsbImages
  /\ BitAnd(USBIRQ, SOF) = 0
  /\ USBIRQ' = BitOr(USBIRQ, SOF)
  /\ UNCHANGED << image, pc, scratch, IFCONFIG, usb_descriptor_set,
                  clkVars, events, epVars, ghostVars >>

\* ------------------------------------------------ external protocol engine
\* isr_SUDAV(): serves the pending SETUP packet from the descriptor set and
\* is expected to clear the setup-available request; an engine that fails to
\* do so leaves the register as it is.  It writes neither the scratch marker
\* cells nor the descriptor set.
isr_SUDAV(irq, clears) ==
  IF clears THEN irq - BitAnd(irq, SUDAV) ELSE irq

\* a 16-bit field as it lies in memory, low byte first
LE16(v) == << v % 256, (v \div 256) % 256 >>

\* struct usb_desc_device as the engine copies it to the endpoint buffer
SerializeDevice(d) ==
  << d.bLength, d.bDescriptorType >> \o LE16(d.bcdUSB)
  \o << d.bDeviceClass, d.bDeviceSubClass, d.bDeviceProtocol,
        d.bMaxPacketSize0 >>
  \o LE16(d.idVendor) \o LE16(d.idProduct) \o LE16(d.bcdDevice)
  \o << d.iManufacturer, d.iProduct, d.iSerialNumber,
        d.bNumConfigurations >>

\* variant: the hook acknowledges every request it is given
handle_usb_setup_Acks(req) == << "ACK_EP0" >>

\* void handle_usb_setup(req) { return; }
\* the endpoint-0 handshakes the hook performs for a request, in order
handle_usb_setup(req) == << >>

\* the answer of endpoint 0 to a request: a standard request is served from
\* the descriptor set, any other goes to the hook and is stalled by the
\* engine unless the hook acknowledged it
ServeSetup(set, req) ==
  IF req \in StandardRequests
    THEN [ stat |-> "data", buf |-> SerializeDevice(set.device) ]
    ELSE IF \E k \in DOMAIN handle_usb_setup(req) :
              handle_usb_setup(req)[k] = "ACK_EP0"
           THEN [ stat |-> "ack", buf |-> EP0BUF ]
           ELSE [ stat |-> "stall", buf |-> EP0BUF ]

\* what one call of isr_SUDAV() does to endpoint 0
EngineServes ==
  /\ EP0CS' = ServeSetup(usb_descriptor_set, SETUPDAT).stat
  /\ EP0BUF' = ServeSetup(usb_descriptor_set, SETUPDAT).buf
  /\ pending' = IF pending - 1 < 0 - MaxDeficit THEN 0 - MaxDeficit
                ELSE pending - 1
  /\ UNCHANGED SETUPDAT

\* variant: the loop acknowledges the request itself when it observes it
Fx2usb_Wait_Acks ==
  /\ image = "fx2usb"
  /\ pc = "wait"
  /\ pc' = IF SudavClear(USBIRQ) THEN "wait" ELSE "marker1"
  /\ USBIRQ' = IF SudavClear(USBIRQ) THEN USBIRQ ELSE USBIRQ - SUDAV
  /\ events' = Log(Ev("rd_USBIRQ", USBIRQ))
  /\ UNCHANGED << image, scratch, IFCONFIG, usb_descriptor_set, clkVars, epVars, ghostVars >>

\* variant: the marker copy has its two cells the wrong way round
Fx2usb_Marker1_Swapped ==
  /\ image = "fx2usb"
  /\ pc = "marker1"
  /\ scratch' = [ scratch EXCEPT ![0] = scratch[1] ]
  /\ pc' = "isr"
  /\ events' = Log(Ev("wr_scratch1", scratch[1]))
  /\ UNCHANGED << image, USBIRQ, IFCONFIG, usb_descriptor_set, clkVars, epVars, ghostVars >>

\* variant: the loop goes back to the busy-wait right after the handler
Fx2usb_Isr_NoPost ==
  /\ image = "fx2usb"
  /\ pc = "isr"
  /\ \E clears \in BOOLEAN :
       /\ USBIRQ' = isr_SUDAV(USBIRQ, clears)
       /\ engine_failed' = (engine_failed \/ ~clears)
  /\ EngineServes
  /\ pc' = "wait"
  /\ events' = Log(Ev("call_isr_SUDAV", 0))
  /\ UNCHANGED << image, scratch, IFCONFIG, usb_descriptor_set, clkVars >>

\* variant: the loop leaves the busy-wait after one read, whatever it read
Fx2usb_Wait_NoTest ==
  /\ image = "fx2usb"
  /\ pc = "wait"
  /\ pc' = "marker1"
  /\ events' = Log(Ev("rd_USBIRQ", USBIRQ))
  /\ UNCHANGED << image, usbVars, clkVars, epVars, ghostVars >>

\* variant: the second marker is written in a loop that never ends
Fx2usb_Marker2_Stuck ==
  /\ image = "fx2usb"
  /\ pc = "marker2"
  /\ scratch' = [ scratch EXCEPT ![2] = scratch[0] ]
  /\ pc' = "marker2"
  /\ events' = Log(Ev("wr_scratch2", scratch[0]))
  /\ UNCHANGED << image, USBIRQ, IFCONFIG, usb_descriptor_set, clkVars, epVars, ghostVars >>

\* ------------------------------------------- firmware/fx2usb/main.c main()
\* while ((USBIRQ & _SUDAV) == 0) { (void) 0; }
Fx2usb_Wait ==
  /\ image = "fx2usb"
  /\ pc = "wait"
  /\ pc' = IF SudavClear(USBIRQ) THEN "wait" ELSE "marker1"
  /\ events' = Log(Ev("rd_USBIRQ", USBIRQ))
  /\ UNCHANGED << image, usbVars, clkVars, epVars, ghostVars >>

\* scratch[1] = scratch[0];
Fx2usb_Marker1 ==
  /\ image = "fx2usb"
  /\ pc = "marker1"
  /\ scratch' = [ scratch EXCEPT ![1] = scratch[0] ]
  /\ pc' = "isr"
  /\ events' = Log(Ev("wr_scratch1", scratch[0]))
  /\ UNCHANGED << image, USBIRQ, IFCONFIG, usb_descriptor_set, clkVars, epVars, ghostVars >>

\* isr_SUDAV();
Fx2usb_Isr ==
  /\ image = "fx2usb"
  /\ pc = "isr"
  /\ \E clears \in BOOLEAN :
       /\ USBIRQ' = isr_SUDAV(USBIRQ, clears)
       /\ engine_failed' = (engine_failed \/ ~clears)
  /\ EngineServes
  /\ pc' = "marker2"
  /\ events' = Log(Ev("call_isr_SUDAV", 0))
  /\ UNCHANGED << image, scratch, IFCONFIG, usb_descriptor_set, clkVars >>

\* scratch[2] = scratch[0];
Fx2usb_Marker2 ==
  /\ image = "fx2usb"
  /\ pc = "marker2"
  /\ scratch' = [ scratch EXCEPT ![2] = scratch[0] ]
  /\ pc' = "wait"
  /\ events' = Log(Ev("wr_scratch2", scratch[0]))
  /\ UNCHANGED << image, USBIRQ, IFCONFIG, usb_descriptor_set, clkVars, epVars, ghostVars >>

\* ----------------------------------------------- test-libfx2/main.c main()
\* while ((USBIRQ & _SUDAV) == 0) { (void) 0; }
Libfx2_Wait ==
  /\ image = "libfx2"
  /\ pc = "wait"
  /\ pc' = IF SudavClear(USBIRQ) THEN "wait" ELSE "marker1"
  /\ events' = Log(Ev("rd_USBIRQ", USBIRQ))
  /\ UNCHANGED << image, usbVars, clkVars, epVars, ghostVars >>

\* IFCONFIG = 0;
Libfx2_Marker1 ==
  /\ image = "libfx2"
  /\ pc = "marker1"
  /\ IFCONFIG' = 0
  /\ pc' = "isr"
  /\ events' = Log(Ev("wr_IFCONFIG", 0))
  /\ UNCHANGED << image, USBIRQ, scratch, usb_descriptor_set, clkVars, epVars, ghostVars >>

\* isr_SUDAV();
Libfx2_Isr ==
  /\ image = "libfx2"
  /\ pc = "isr"
  /\ \E clears \in BOOLEAN :
       /\ USBIRQ' = isr_SUDAV(USBIRQ, clears)
       /\ engine_failed' = (engine_failed \/ ~clears)
  /\ EngineServes
  /\ pc' = "wait"
  /\ events' = Log(Ev("call_isr_SUDAV", 0))
  /\ UNCHANGED << image, scratch, IFCONFIG, usb_descriptor_set, clkVars >>

\* variant: the wrap test is off by one downwards
Clk_Wrap_AtTwo ==
  /\ image = "clkspd"
  /\ pc = "clk_wrap"
  /\ cpuspd' = IF cpuspd >= 2 THEN 0 ELSE cpuspd
  /\ pc' = "clk_write"
  /\ UNCHANGED << image, usbVars, CPUCS, i, events, epVars, ghostVars >>

\* variant: the wrap test is off by one upwards
Clk_Wrap_AboveThree ==
  /\ image = "clkspd"
  /\ pc = "clk_wrap"
  /\ cpuspd' = IF cpuspd > 3 THEN 0 ELSE cpuspd
  /\ pc' = "clk_write"
  /\ UNCHANGED << image, usbVars, CPUCS, i, events, epVars, ghostVars >>

\* variant: the delay loop runs one step too many
Clk_Delay_Eleven ==
  /\ image = "clkspd"
  /\ pc = "clk_delay"
  /\ IF i <= 10
       THEN i' = i + 1 /\ pc' = "clk_delay"
       ELSE i' = i /\ pc' = "clk_read"
  /\ UNCHANGED << image, usbVars, CPUCS, cpuspd, events, epVars, ghostVars >>

\* ------------------------------------------------------ test/clkspd.c main()
\* i = 0;
Clk_Reset ==
  /\ image = "clkspd"
  /\ pc = "clk_reset"
  /\ i' = 0
  /\ pc' = "clk_delay"
  /\ UNCHANGED << image, usbVars, CPUCS, cpuspd, events, epVars, ghostVars >>

\* while (i < 10) { i++; }
Clk_Delay ==
  /\ image = "clkspd"
  /\ pc = "clk_delay"
  /\ IF i < 10
       THEN i' = i + 1 /\ pc' = "clk_delay"
       ELSE i' = i /\ pc' = "clk_read"
  /\ UNCHANGED << image, usbVars, CPUCS, cpuspd, events, epVars, ghostVars >>

\* cpuspd = (CPUCS & _CLKSPD_MASK) >> _CLKSPD_OFFSET;
Clk_Read ==
  /\ image = "clkspd"
  /\ pc = "clk_read"
  /\ cpuspd' = U8(ShiftR(BitAnd(CPUCS, CLKSPD_MASK), CLKSPD_OFFSET))
  /\ pc' = "clk_inc"
  /\ events' = Log(Ev("rd_CPUCS", CPUCS))
  /\ UNCHANGED << image, usbVars, CPUCS, i, epVars, ghostVars >>

\* cpuspd++;
Clk_Inc ==
  /\ image = "clkspd"
  /\ pc = "clk_inc"
  /\ cpuspd' = U8(cpuspd + 1)
  /\ pc' = "clk_wrap"
  /\ UNCHANGED << image, usbVars, CPUCS, i, events, epVars, ghostVars >>

\* if (cpuspd > 2) { cpuspd = 0; }
Clk_Wrap ==
  /\ image = "clkspd"
  /\ pc = "clk_wrap"
  /\ cpuspd' = IF cpuspd > 2 THEN 0 ELSE cpuspd
  /\ pc' = "clk_write"
  /\ UNCHANGED << image, usbVars, CPUCS, i, events, epVars, ghostVars >>

\* CPUCS = cpuspd << _CLKSPD_OFFSET;
Clk_Write ==
  /\ image = "clkspd"
  /\ pc = "clk_write"
  /\ CPUCS' = U8(ShiftL(cpuspd, CLKSPD_OFFSET))
  /\ pc' = "clk_reset"
  /\ events' = Log(Ev("wr_CPUCS", U8(ShiftL(cpuspd, CLKSPD_OFFSET))))
  /\ UNCHANGED << image, usbVars, i, cpuspd, epVars, ghostVars >>

\* ---------------------------------------------------------- specification
Firmware ==
  \/ Fx2usb_Wait
  \/ Fx2usb_Marker1
  \/ Fx2usb_Isr
  \/ Fx2usb_Marker2
  \/ Libfx2_Wait
  \/ Libfx2_Marker1
  \/ Libfx2_Isr
  \/ Clk_Reset
  \/ Clk_Delay
  \/ Clk_Read
  \/ Clk_Inc
  \/ Clk_Wrap
  \/ Clk_Write

Next ==
  \/ HwSetupArrives
  \/ HwOtherIrq
  \/ Fx2usb_Wait
  \/ Fx2usb_Marker1
  \/ Fx2usb_Isr
  \/ Fx2usb_Marker2
  \/ Libfx2_Wait
  \/ Libfx2_Marker1
  \/ Libfx2_Isr
  \/ Clk_Reset
  \/ Clk_Delay
  \/ Clk_Read
  \/ Clk_Inc
  \/ Clk_Wrap
  \/ Clk_Write

Spec == Init /\ [][Next]_vars

\* the CPU never stops executing the firmware; the host is free never to
\* send a SETUP packet
FairSpec == Spec /\ WF_vars(Firmware)

\* ------------------------------------------------- reading the event log
IsRead(e) == e.op = "rd_USBIRQ"
ReadSet(e) == IsRead(e) /\ HasSudav(e.val)
ReadClear(e) == IsRead(e) /\ ~HasSudav(e.val)
IsCall(e) == e.op = "call_isr_SUDAV"
IsPre(e) == e.op = "wr_scratch1"
IsPost(e) == e.op = "wr_scratch2"
\* the marker an image writes when it leaves the busy-wait
IsMarker(e) == e.op = (IF image = "fx2usb" THEN "wr_scratch1" ELSE "wr_IFCONFIG")

LogIdx == 1 .. Len(events)
\* the log positions strictly between k and m
Between(k, m) == { j \in LogIdx : k < j /\ j < m }
\* the log has a new last entry after the step
Logged == events' # events
LastEv == events[Len(events)]

\* ------------------------------------------------------------------- C1
\* C1: in firmware/fx2usb/main.c every read of USBIRQ that observes SUDAV set
\* is followed, in this order, by the write of scratch[1], one call of
\* isr_SUDAV, the write of scratch[2] and only then the next read of USBIRQ;
\* between two consecutive writes of scratch[1] there is exactly one call of
\* the handler and exactly one write of scratch[2].
C1_DispatchOrder ==
  image = "fx2usb" =>
    /\ \A k \in LogIdx :
         ReadSet(events[k]) =>
           /\ (k + 1 <= Len(events) => IsPre(events[k + 1]))
           /\ (k + 2 <= Len(events) => IsCall(events[k + 2]))
           /\ (k + 3 <= Len(events) => IsPost(events[k + 3]))
           /\ (k + 4 <= Len(events) => IsRead(events[k + 4]))
           /\ (k = Len(events) => pc = "marker1")
    /\ \A k \in LogIdx : \A m \in LogIdx :
         ( /\ k < m
           /\ IsPre(events[k])
           /\ IsPre(events[m])
           /\ \A j \in Between(k, m) : ~IsPre(events[j]) ) =>
           /\ Cardinality({ j \in Between(k, m) : IsCall(events[j]) }) = 1
           /\ Cardinality({ j \in Between(k, m) : IsPost(events[j]) }) = 1

\* two full rounds of the loop are in the log
C1_Witness ==
  /\ image = "fx2usb"
  /\ Len(events) >= 5
  /\ \E k \in LogIdx :
       /\ k + 4 <= Len(events)
       /\ IsPre(events[k])
       /\ IsCall(events[k + 1])
       /\ IsPost(events[k + 2])
       /\ ReadSet(events[k + 3])
       /\ IsPre(events[k + 4])

\* ------------------------------------------------------------------- C2
\* C2: if the engine never clears the setup-available request (SUDAV stays
\* set for ever), the handler is called again and again, with exactly one
\* read of USBIRQ between two calls; no step changes the descriptor set or
\* scratch[0], and scratch[1] and scratch[2] only ever change to the value of
\* scratch[0].
C2_NoCorruption ==
  /\ usb_descriptor_set' = usb_descriptor_set
  /\ scratch'[0] = scratch[0]
  /\ \A c \in { 1, 2 } : scratch'[c] # scratch[c] => scratch'[c] = scratch[0]

C2_OneReadBetweenCalls ==
  \A k \in LogIdx : \A m \in LogIdx :
    ( /\ k < m
      /\ IsCall(events[k])
      /\ IsCall(events[m])
      /\ \A j \in Between(k, m) : ~IsCall(events[j]) /\ ~ReadClear(events[j]) ) =>
      Cardinality({ j \in Between(k, m) : IsRead(events[j]) }) = 1

C2_JustCalled == events # << >> /\ IsCall(LastEv)

C2_Livelock ==
  /\ [][C2_NoCorruption]_vars
  /\ [](image \in UsbImages => usb_descriptor_set = DescriptorSetOf(image))
  /\ []C2_OneReadBetweenCalls
  /\ (<>[](image \in UsbImages /\ HasSudav(USBIRQ)) => []<>C2_JustCalled)

\* the handler has been called twice, the request still pending after both
C2_Witness ==
  /\ image = "fx2usb"
  /\ HasSudav(USBIRQ)
  /\ Len(events) >= 5
  /\ IsCall(LastEv)
  /\ IsPre(events[Len(events) - 1])
  /\ ReadSet(events[Len(events) - 2])
  /\ IsPost(events[Len(events) - 3])
  /\ IsCall(events[Len(events) - 4])
  /\ scratch[1] = scratch[0]
  /\ scratch[2] = scratch[0]

\* ------------------------------------------------------------------- C3
\* C3: the loop writes its marker and calls the handler only when the most
\* recent read of USBIRQ had SUDAV set; a read that finds SUDAV clear is
\* followed by no write and no call, the loop stays in the busy-wait, however
\* many polls have been made.
C3_OnlyAfterReadSet ==
  /\ \A k \in LogIdx :
       /\ (IsMarker(events[k]) /\ k >= 2) => ReadSet(events[k - 1])
       /\ (IsCall(events[k]) /\ k >= 3) =>
            IsMarker(events[k - 1]) /\ ReadSet(events[k - 2])
       /\ (ReadClear(events[k]) /\ k + 1 <= Len(events)) => IsRead(events[k + 1])
  /\ (events # << >> /\ ReadClear(LastEv)) => pc = "wait"
  /\ pc \in { "marker1", "isr" } =>
       \E k \in LogIdx :
         /\ ReadSet(events[k])
         /\ \A j \in LogIdx : j > k => ~IsRead(events[j])

C3_PollStep ==
  (pc = "wait" /\ ~HasSudav(USBIRQ)) => pc' = "wait"

C3_PollWritesNothing ==
  (image \in UsbImages /\ pc = "wait") =>
     UNCHANGED << USBIRQ, scratch, IFCONFIG, usb_descriptor_set, CPUCS >>
     \/ (pc' = pc /\ events' = events)

C3_BusyWait ==
  /\ []C3_OnlyAfterReadSet
  /\ [][C3_PollStep /\ C3_PollWritesNothing]_vars

\* several polls found SUDAV clear, then one found it set and the loop went on
C3_Witness ==
  /\ image \in UsbImages
  /\ Len(events) >= 5
  /\ \E k \in LogIdx :
       /\ k + 4 <= Len(events)
       /\ ReadClear(events[k])
       /\ ReadClear(events[k + 1])
       /\ ReadSet(events[k + 2])
       /\ IsMarker(events[k + 3])
       /\ IsCall(events[k + 4])

\* ------------------------------------------------------------------- C4
\* C4: the loop itself never writes USBIRQ: a step that changes the register
\* is either the call of the engine's handler or a hardware step that only
\* raises request bits; SUDAV goes from set to clear in the handler call only.
C4_IrqStep ==
  USBIRQ' # USBIRQ =>
    \/ pc = "isr" /\ Logged /\ IsCall(events'[Len(events')])
    \/ /\ pc' = pc
       /\ events' = events
       /\ BitAnd(USBIRQ', USBIRQ) = USBIRQ

C4_ClearStep ==
  (HasSudav(USBIRQ) /\ ~HasSudav(USBIRQ')) => pc = "isr"

C4_LoopNeverWritesIrq == [][C4_IrqStep /\ C4_ClearStep]_vars

\* the handler has cleared the request and the loop polls again
C4_Witness ==
  /\ image \in UsbImages
  /\ ~HasSudav(USBIRQ)
  /\ Len(events) >= 3
  /\ ReadClear(LastEv)
  /\ \E k \in LogIdx : IsCall(events[k]) /\ \E j \in LogIdx : j < k /\ ReadSet(events[j])

\* ------------------------------------------------------------------- C5
IsClkRead(e) == e.op = "rd_CPUCS"
IsClkWrite(e) == e.op = "wr_CPUCS"
ValidField == { 0, 1, 2 }
\* DIV1 -> DIV2 -> DIV4 -> DIV1
ClkSucc(f) == (f + 1) % 3

\* C5: in clkspd.c, when the clock-speed field read from CPUCS is one of 00,
\* 01, 10, the value written to the field is its cyclic successor
\* (DIV1 -> DIV2 -> DIV4 -> DIV1) and is never 11; nothing else writes the
\* register, so the next read returns what was written and consecutive
\* writes follow the cycle.
C5_RoundRobin ==
  image = "clkspd" =>
    \A k \in LogIdx :
      /\ ( /\ IsClkWrite(events[k])
           /\ k >= 2
           /\ ClkField(events[k - 1].val) \in ValidField ) =>
           /\ IsClkRead(events[k - 1])
           /\ ClkField(events[k].val) = ClkSucc(ClkField(events[k - 1].val))
           /\ ClkField(events[k].val) # 3
      /\ (IsClkWrite(events[k]) /\ k + 1 <= Len(events)) =>
           IsClkRead(events[k + 1]) /\ events[k + 1].val = events[k].val
      /\ (IsClkWrite(events[k]) /\ k + 2 <= Len(events)) =>
           /\ IsClkWrite(events[k + 2])
           /\ ClkField(events[k + 2].val) = ClkSucc(ClkField(events[k].val))
      /\ (IsClkWrite(events[k]) /\ k = Len(events)) => CPUCS = events[k].val

\* a full cycle DIV2, DIV4, DIV1 has been written
C5_Witness ==
  /\ image = "clkspd"
  /\ Len(events) >= 5
  /\ \E k \in LogIdx :
       /\ k + 4 <= Len(events)
       /\ IsClkWrite(events[k]) /\ ClkField(events[k].val) = 1
       /\ IsClkWrite(events[k + 2]) /\ ClkField(events[k + 2].val) = 2
       /\ IsClkWrite(events[k + 4]) /\ ClkField(events[k + 4].val) = 0

\* ------------------------------------------------------------------- C6
\* C6: every write of CPUCS keeps the bits outside the clock-speed field
\* (mask 0x18) as they were in the value read just before.
C6_PreservesOtherBits ==
  image = "clkspd" =>
    \A k \in LogIdx :
      (IsClkWrite(events[k]) /\ k >= 2 /\ IsClkRead(events[k - 1])) =>
        ClkOther(events[k].val) = ClkOther(events[k - 1].val)

\* ------------------------------------------------------------------- C7
\* C7: when the field read from CPUCS is 11 the field written is 00 (DIV1);
\* once the firmware has written the register the field is one of 00, 01, 10.
C7_InvalidWrapsToDiv1 ==
  image = "clkspd" =>
    /\ \A k \in LogIdx :
         /\ ( /\ IsClkWrite(events[k])
              /\ k >= 2
              /\ ClkField(events[k - 1].val) = 3 ) =>
              ClkField(events[k].val) = 0
         /\ IsClkWrite(events[k]) => ClkField(events[k].val) \in ValidField
    /\ (\E k \in LogIdx : IsClkWrite(events[k])) => ClkField(CPUCS) \in ValidField

\* the field was read as 11, written as 00, and the cycle went on from there
C7_Witness ==
  /\ image = "clkspd"
  /\ Len(events) >= 4
  /\ \E k \in LogIdx :
       /\ k + 3 <= Len(events)
       /\ IsClkRead(events[k]) /\ ClkField(events[k].val) = 3
       /\ IsClkWrite(events[k + 1]) /\ ClkField(events[k + 1].val) = 0
       /\ IsClkWrite(events[k + 3]) /\ ClkField(events[k + 3].val) = 1

\* ------------------------------------------------------------------- C8
\* the interface descriptors of a configuration's list, which ends at the
\* first null entry
RECURSIVE NumInterfaces(_)
NumInterfaces(items) ==
  IF items = << >> \/ Head(items) = 0 THEN 0
  ELSE (IF Head(items) = USB_DESC_INTERFACE THEN 1 ELSE 0)
       + NumInterfaces(Tail(items))

\* C8: in every configuration of every image's descriptor set, bNumInterfaces
\* equals the number of interface descriptors in the configuration's list.
C8_NumInterfaces ==
  image \in UsbImages =>
    \A c \in DOMAIN usb_descriptor_set.configs :
      usb_descriptor_set.configs[c].desc.bNumInterfaces
        = NumInterfaces(usb_descriptor_set.configs[c].items)

\* ------------------------------------------------------------------- C9
\* the string indices the device and configuration descriptors refer to
StringRefs(set) ==
  { set.device.iManufacturer, set.device.iProduct, set.device.iSerialNumber }
  \cup { set.configs[c].desc.iConfiguration : c \in DOMAIN set.configs }

\* C9 as stated: every referenced string index is 0 or strictly less than
\* string_count.
C9_IndexBelowCount ==
  image \in UsbImages =>
    \A idx \in StringRefs(usb_descriptor_set) :
      idx = 0 \/ idx < usb_descriptor_set.string_count

\* C9 amended: every referenced string index is 0 or at most string_count.
C9_IndexWithinCount ==
  image \in UsbImages =>
    \A idx \in StringRefs(usb_descriptor_set) :
      idx = 0 \/ idx <= usb_descriptor_set.string_count

\* the engine has been handed a set that refers to its last string
C9_Witness ==
  /\ image \in UsbImages
  /\ events # << >>
  /\ IsCall(LastEv)
  /\ usb_descriptor_set.string_count \in StringRefs(usb_descriptor_set)

\* ------------------------------------------------------------------ C10
\* C10: with the strings indexed 1..string_count, every non-zero string index
\* referenced resolves to a string of the table, and each of the
\* bNumConfigurations configurations the device announces is an entry of the
\* configuration sequence.
C10_IndicesResolve ==
  image \in UsbImages =>
    /\ \A idx \in StringRefs(usb_descriptor_set) \ { 0 } :
         /\ 1 <= idx
         /\ idx <= usb_descriptor_set.string_count
         /\ idx \in DOMAIN usb_descriptor_set.strings
    /\ \A n \in 1 .. usb_descriptor_set.device.bNumConfigurations :
         /\ n <= usb_descriptor_set.config_count
         /\ n \in DOMAIN usb_descriptor_set.configs

\* the engine has been handed a set with a string reference and a configuration
C10_Witness ==
  /\ image \in UsbImages
  /\ events # << >>
  /\ IsCall(LastEv)
  /\ StringRefs(usb_descriptor_set) \ { 0 } # { }
  /\ usb_descriptor_set.device.bNumConfigurations >= 1
  /\ usb_descriptor_set.strings[usb_descriptor_set.device.iProduct]
       \in { "FX2 simulation example firmware",
             "FX2 series serial interface example" }

\* ------------------------------------------------------------------ C11
\* 12 01 00 02 00 00 00 40 B4 04 13 86 00 00 01 02 00 01
DeviceBytes ==
  << 18, 1, 0, 2, 0, 0, 0, 64, 180, 4, 19, 134, 0, 0, 1, 2, 0, 1 >>

\* C11: the device descriptor of firmware/fx2usb/main.c, serialised in USB
\* field order with 16-bit fields little-endian, is 18 bytes long, starts
\* with its own length 18 and equals 12 01 00 02 00 00 00 40 B4 04 13 86 00
\* 00 01 02 00 01; these are the bytes the engine answers GET_DESCRIPTOR with.
C11_DeviceDescriptorBytes ==
  image = "fx2usb" =>
    /\ Len(SerializeDevice(usb_descriptor_set.device)) = 18
    /\ SerializeDevice(usb_descriptor_set.device)[1] = 18
    /\ SerializeDevice(usb_descriptor_set.device) = DeviceBytes
    /\ SerializeDevice(usb_descriptor_set.device)[8] = 64
    /\ EP0CS = "data" => EP0BUF = DeviceBytes

\* the engine has answered a GET_DESCRIPTOR(device) request
C11_Witness ==
  /\ image = "fx2usb"
  /\ EP0CS = "data"
  /\ Len(EP0BUF) = 18
  /\ events # << >>
  /\ IsCall(LastEv)

\* ------------------------------------------------------------------ C12
\* C12: whenever the engine passes a request to handle_usb_setup, the hook
\* acknowledges nothing, so the engine stalls endpoint 0 and never reports the
\* request as handled, and the call changes no memory of the firmware and no
\* register other than the engine's own.
C12_HookStep ==
  (pc = "isr" /\ pc' # "isr" /\ SETUPDAT \notin StandardRequests) =>
    /\ EP0CS' = "stall"
    /\ EP0CS' # "ack"
    /\ UNCHANGED << scratch, IFCONFIG, usb_descriptor_set, CPUCS, EP0BUF,
                    SETUPDAT >>

C12_HookDeclines == [][C12_HookStep]_vars

\* a request the engine does not recognise has gone through the hook
C12_Witness ==
  /\ image \in UsbImages
  /\ events # << >>
  /\ IsCall(LastEv)
  /\ SETUPDAT = "VENDOR"
  /\ EP0CS = "stall"

\* ------------------------------------------------------------------ C13
C13_RaisedInWait == image = "fx2usb" /\ pc = "wait" /\ HasSudav(USBIRQ)
C13_HandlerCalled ==
  image = "fx2usb" /\ pc = "marker2" /\ events # << >> /\ IsCall(LastEv)
C13_PostWritten ==
  image = "fx2usb" /\ pc = "wait" /\ events # << >> /\ IsPost(LastEv)

\* C13: if the engine always clears SUDAV before it returns and the firmware
\* keeps running, then whenever SUDAV is raised while the loop is in the
\* busy-wait the handler is eventually called, the write of scratch[2]
\* eventually follows and the loop is then back in the busy-wait; the loop is
\* in the busy-wait again and again.
C13_Progress ==
  ([]~engine_failed) =>
    /\ (C13_RaisedInWait ~> C13_HandlerCalled)
    /\ (C13_HandlerCalled ~> C13_PostWritten)
    /\ [](image = "fx2usb" => <>(pc = "wait"))

\* a request raised in the busy-wait was seen and handled, and the loop polls
\* again with the request gone
C13_Witness ==
  /\ image = "fx2usb"
  /\ ~engine_failed
  /\ pc = "wait"
  /\ ~HasSudav(USBIRQ)
  /\ Len(events) >= 5
  /\ ReadSet(events[Len(events) - 4])
  /\ IsPre(events[Len(events) - 3])
  /\ IsCall(events[Len(events) - 2])
  /\ IsPost(events[Len(events) - 1])
  /\ ReadClear(LastEv)

\* ------------------------------------------------------------------ C14
\* C14: as long as the engine has always cleared SUDAV before returning, the
\* handler has been called at most as often as the hardware has raised the
\* setup-available request.
C14_NoDoubleHandling ==
  (image \in UsbImages /\ ~engine_failed) => pending >= 0

\* two requests have been raised and each has been handled once
C14_Witness ==
  /\ image \in UsbImages
  /\ ~engine_failed
  /\ pending = 0
  /\ events # << >>
  /\ IsCall(LastEv)
  /\ Cardinality({ k \in LogIdx : IsCall(events[k]) }) >= 2

\* ------------------------------------------------------------------ C15
C15_Counts ==
  image = "fx2usb" =>
    /\ usb_descriptor_set.config_count = Len(usb_descriptor_set.configs)
    /\ usb_descriptor_set.config_count
         = usb_descriptor_set.device.bNumConfigurations
    /\ usb_descriptor_set.config_count = 1
    /\ usb_descriptor_set.string_count = Len(usb_descriptor_set.strings)
    /\ usb_descriptor_set.string_count = 2

\* C15: in the descriptor set of firmware/fx2usb/main.c config_count is the
\* length of the configuration sequence and equals bNumConfigurations (1),
\* and string_count is the number of strings (2); this holds in every state
\* because no step writes the descriptor set.
C15_CountsMatch ==
  /\ []C15_Counts
  /\ [][usb_descriptor_set' = usb_descriptor_set]_vars

\* the loop has gone round once with the descriptor set in the engine's hands
C15_Witness ==
  /\ image = "fx2usb"
  /\ pc = "wait"
  /\ events # << >>
  /\ IsPost(LastEv)
  /\ usb_descriptor_set.string_count = 2
  /\ usb_descriptor_set.config_count = 1

\* ------------------------------------------------------------------ C16
C16_AfterDelay == { "clk_read", "clk_inc", "clk_wrap", "clk_write" }

C16_DelayInv ==
  image = "clkspd" =>
    /\ i \in 0 .. 10
    /\ pc \in C16_AfterDelay => i = 10
    /\ \A k \in LogIdx :
         /\ (IsClkRead(events[k]) /\ k + 1 <= Len(events)) =>
              IsClkWrite(events[k + 1])
         /\ (IsClkWrite(events[k]) /\ k + 1 <= Len(events)) =>
              IsClkRead(events[k + 1])
         /\ (IsClkRead(events[k]) /\ k = Len(events)) =>
              pc \in { "clk_inc", "clk_wrap", "clk_write" }
         /\ (IsClkWrite(events[k]) /\ k = Len(events)) =>
              pc \in { "clk_reset", "clk_delay", "clk_read" }

C16_DelayStep ==
  image = "clkspd" =>
    /\ pc = "clk_reset" => (i' = 0 /\ pc' = "clk_delay")
    /\ (pc = "clk_delay" /\ pc' = "clk_delay") => i' = i + 1
    /\ (pc = "clk_delay" /\ pc' # "clk_delay") =>
         (i = 10 /\ i' = 10 /\ pc' = "clk_read")
    /\ pc # "clk_write" => CPUCS' = CPUCS
    /\ pc = "clk_write" => pc' = "clk_reset"

C16_JustWrote(f) ==
  pc = "clk_reset" /\ i = 10 /\ events # << >> /\ IsClkWrite(LastEv)
  /\ ClkField(CPUCS) = f

\* C16: in clkspd.c the delay loop ends after exactly 10 increments of i,
\* every round of the outer loop then reads CPUCS once and writes it once,
\* and, the firmware running for ever, CPUCS is written again and again and
\* each of DIV1, DIV2, DIV4 is written again and again.
C16_DelayAndCycle ==
  /\ []C16_DelayInv
  /\ [][C16_DelayStep]_vars
  /\ [](image = "clkspd" => <>(pc = "clk_write"))
  /\ [](image = "clkspd" => <>C16_JustWrote(0))
  /\ [](image = "clkspd" => <>C16_JustWrote(1))
  /\ [](image = "clkspd" => <>C16_JustWrote(2))

\* three rounds, each one read then one write, have gone through the cycle
C16_Witness ==
  /\ image = "clkspd"
  /\ pc = "clk_reset"
  /\ i = 10
  /\ Len(events) >= 5
  /\ IsClkWrite(events[Len(events) - 4])
  /\ IsClkRead(events[Len(events) - 3])
  /\ IsClkWrite(events[Len(events) - 2])
  /\ IsClkRead(events[Len(events) - 1])
  /\ IsClkWrite(LastEv)
  /\ ClkField(events[Len(events) - 4].val) = 1
  /\ ClkField(events[Len(events) - 2].val) = 2
  /\ ClkField(LastEv.val) = 0

\* ------------------------------------------------------------------ C17
ScratchWrites == { "wr_scratch1", "wr_scratch2" }
LoopReadsAndCalls == { "rd_USBIRQ", "call_isr_SUDAV" }

\* C17: in both images with the control-dispatch loop, every access the loop
\* makes outside the handler call is a read of USBIRQ or a write to a scratch
\* marker cell; it writes no hardware configuration register.
C17_MarkerIsScratchWrite ==
  image \in UsbImages =>
    \A k \in LogIdx : events[k].op \in ScratchWrites \cup LoopReadsAndCalls

====
